---- MODULE Spec2Model ----
(***************************************************************************)
(* The candidate-job matching engine of home/views.py: the JobMatcher      *)
(* methods (skill and experience extraction, TF-IDF similarity, ranking)   *)
(* and the three JSON endpoints built on them.                             *)
(*                                                                         *)
(* Texts are TLA+ strings, handled character by character as the Python    *)
(* code handles them.  Floats are fixed-point: a component score s is the  *)
(* integer s * One, and the composite score is kept in units of            *)
(* 1 / (10 * One), so that the weights 0.4/0.3/0.2/0.1 are the integers    *)
(* 4/3/2/1 and the weighted sum is exact.                                  *)
(***************************************************************************)
EXTENDS Integers, Sequences, FiniteSets, TLC

VARIABLES
    hashSeed,    \* the str-hash seed of this process run (PYTHONHASHSEED)
    nlp,         \* module global nlp: TRUE = spaCy model loaded, FALSE = None
    vectorizer,  \* job_matcher.vectorizer: whether fitted, and its vocabulary_
    call,        \* the operation in progress and its arguments, or Idle
    ret          \* what the operation returned, or Pending

vars == <<hashSeed, nlp, vectorizer, call, ret>>

(***************************************************************************)
(* Bounds of the model.                                                    *)
(***************************************************************************)
NumSeeds == 2        \* process runs differ in one of NumSeeds hash seeds
MaxPhrases == 2      \* a free text is at most MaxPhrases phrases long
MaxCandidates == 2   \* short candidate lists have at most this many entries
MaxExtra == 1        \* long candidate lists exceed the top-10 cut by at most this

Idle == [op |-> "idle"]
Pending == [pending |-> TRUE]
Returned(v) == [value |-> v]

\* TfidfVectorizer(...) as JobMatcher.__init__ builds it
Unfitted == [fitted |-> FALSE, vocabulary_ |-> {}, idf_ |-> << >>]

(***************************************************************************)
(* Characters and strings.                                                 *)
(***************************************************************************)
UpperCase == "ABCDEFGHIJKLMNOPQRSTUVWXYZ"
LowerCase == "abcdefghijklmnopqrstuvwxyz"
Digits == "0123456789"

CharAt(s, i) == SubSeq(s, i, i)

CharsOf(s) == {CharAt(s, i) : i \in 1..Len(s)}

\* str.lower() on one character
LowerOf ==
    [c \in CharsOf(UpperCase) |->
        CharAt(LowerCase, CHOOSE i \in 1..Len(UpperCase) : CharAt(UpperCase, i) = c)]

DigitOf ==
    [c \in CharsOf(Digits) |->
        (CHOOSE i \in 1..Len(Digits) : CharAt(Digits, i) = c) - 1]

RECURSIVE lower(_)
\* str.lower()
lower(s) ==
    IF Len(s) = 0 THEN ""
    ELSE IF Len(s) = 1 THEN (IF s \in DOMAIN LowerOf THEN LowerOf[s] ELSE s)
    ELSE LET h == Len(s) \div 2
         IN  lower(SubSeq(s, 1, h)) \o lower(SubSeq(s, h + 1, Len(s)))

\* the characters str.strip() and the regex class \s remove
WhiteSpace == {" ", "\t", "\n", "\r", "\f"}

IsSpace(c) == c \in WhiteSpace
IsDigit(c) == c \in DOMAIN DigitOf

\* a check for the empty string only
IsEmpty(s) == s = ""

\* s.strip() = "": the string is empty or whitespace-only
IsBlank(s) == \A i \in 1..Len(s) : IsSpace(CharAt(s, i))

\* the string literal lit occurs in s at position p
At(s, p, lit) == p >= 1 /\ p + Len(lit) - 1 <= Len(s) /\ SubSeq(s, p, p + Len(lit) - 1) = lit

\* Python's `needle in hay` on strings
Contains(hay, needle) == \E p \in 1..(Len(hay) - Len(needle) + 1) : At(hay, p, needle)

RECURSIVE int(_)
\* int() of a digit string
int(s) ==
    IF s = "" THEN 0
    ELSE 10 * int(SubSeq(s, 1, Len(s) - 1)) + DigitOf[CharAt(s, Len(s))]

(***************************************************************************)
(* JobMatcher.__init__: the fixed, ordered skill vocabulary.               *)
(***************************************************************************)
skill_keywords ==
    << "python", "java", "javascript", "react", "nodejs", "django", "flask",
       "sql", "mongodb", "postgresql", "mysql", "aws", "azure", "docker",
       "kubernetes", "git", "machine learning", "ai", "data science",
       "agile", "scrum", "devops", "ci/cd", "html", "css", "angular",
       "vue", "tensorflow", "pytorch", "pandas", "numpy", "api", "rest",
       "microservices", "cloud computing", "blockchain", "cybersecurity" >>

Range(seq) == {seq[i] : i \in 1..Len(seq)}

(***************************************************************************)
(* Free texts of the model: up to MaxPhrases phrases, concatenated.        *)
(***************************************************************************)
Phrases ==
    { "5 years of experience, ", "3 years in management", "no experience mentioned",
      "12+ yrs exp ", "JavaScript", "Python at Acme ", "maintain AWS", " " }

RECURSIVE TextsOf(_)
TextsOf(n) ==
    IF n = 0 THEN {""}
    ELSE LET shorter == TextsOf(n - 1)
         IN  shorter \cup {t \o ph : t \in shorter, ph \in Phrases}

Texts == TextsOf(MaxPhrases)

(***************************************************************************)
(* Job descriptions and candidate profiles of the model.                   *)
(***************************************************************************)
JobExample ==
    "Looking for a Python developer with 3+ years of experience and AWS skills, agile team"

\* a job that names more skills than any list of skills shows
JobStack == "Python, Django, SQL, AWS and Docker"

JobTexts ==
    { JobExample, JobStack, "Senior JavaScript engineer", "no experience mentioned", "  ", "" }

Profile(about, skills, experience, projects, education) ==
    [about |-> about, skills |-> skills, experience |-> experience,
     projects |-> projects, education |-> education]

Exp(company, description) == [company |-> company, description |-> description]
Proj(description) == [description |-> description]
Edu(degree) == [degree |-> degree]

\* the candidate of the specification's end-to-end example
Alice ==
    Profile("", <<"Python", "AWS", "Docker">>, <<Exp("Acme", "")>>, << >>, << >>)

\* Alice with a whitespace-only summary: another record, the same scores
Alan == [Alice EXCEPT !.about = " "]

\* whitespace-only company, degree and skill entries
Blank ==
    Profile(" ", <<"python", " ", "PYTHON">>,
            <<Exp(" ", "Python developer"), Exp("", "agile team")>>,
            <<Proj("AWS skills"), Proj("")>>,
            <<Edu(" "), Edu("BSc"), Edu("")>>)

\* more entries than any cap: four employers, six degrees
Senior ==
    Profile("Senior JavaScript engineer", <<"JavaScript", "React">>,
            <<Exp("Acme", "engineer"), Exp("Initech", ""), Exp("Globex", ""),
              Exp("Hooli", "")>>,
            <<Proj("React"), Proj("JavaScript"), Proj("")>>,
            <<Edu("BSc"), Edu("MSc"), Edu("PhD"), Edu("MBA"), Edu("BA"), Edu("MA")>>)

\* nothing at all but one unrelated skill
Nobody == Profile("", <<"Cooking">>, << >>, << >>, << >>)

CandidatePool == { Alice, Alan, Blank, Senior, Nobody }

RECURSIVE ListsOf(_, _)
\* the lists of at most n elements of S
ListsOf(S, n) ==
    IF n = 0 THEN {<< >>}
    ELSE LET shorter == ListsOf(S, n - 1)
         IN  shorter \cup {Append(l, x) : l \in shorter, x \in S}

\* the top-N cut of the rank_candidates endpoint
TopN == 10

Repeat(x, n) == [i \in 1..n |-> x]

\* lists longer than the cut: a short list before or after a run of one candidate
LongLists ==
    LET short == ListsOf({Alice, Blank, Senior}, 2) \ {<< >>}
    IN  UNION {{l \o Repeat(x, TopN + k - Len(l)), Repeat(x, TopN + k - Len(l)) \o l} :
                  l \in short, x \in {Alan, Nobody}, k \in 1..MaxExtra}

CandidateLists == ListsOf(CandidatePool, MaxCandidates) \cup LongLists

\* every text the model hands to the extractors
AllTexts == Texts \cup JobTexts

(***************************************************************************)
(* spaCy's entity recogniser, nlp(text).ents, as far as this model's texts *)
(* go: the spans it recognises, each with its label, in text order.        *)
(***************************************************************************)
NamedEntities ==
    << [text |-> "AWS", label_ |-> "ORG"],
       [text |-> "Acme", label_ |-> "ORG"],
       [text |-> "5 years", label_ |-> "DATE"] >>

doc_ents(text) == SelectSeq(NamedEntities, LAMBDA ent : Contains(text, ent.text))

(***************************************************************************)
(* list(set(xs)): the iteration order of a Python set of strings is the    *)
(* order of their hash slots, and str hashes are seeded per process run.   *)
(* A run's seed fixes one order of the strings that can occur in a skill   *)
(* list; seed 0 is a run whose slots happen to follow the vocabulary.      *)
(***************************************************************************)
SkillUniverse ==
    skill_keywords \o [i \in 1..Len(NamedEntities) |-> lower(NamedEntities[i].text)]

StrHash(seed, s) ==
    LET i == CHOOSE k \in 1..Len(SkillUniverse) : SkillUniverse[k] = s
    IN  (i * ((1 + 39 * seed) % 41)) % 41

RECURSIVE SetToList(_, _)
SetToList(seed, S) ==
    IF S = {} THEN << >>
    ELSE LET x == CHOOSE y \in S : \A z \in S : StrHash(seed, y) <= StrHash(seed, z)
         IN  <<x>> \o SetToList(seed, S \ {x})

\* a keyword loop that forgets to lower-case the text
keyword_matches_cased(text) ==
    SelectSeq(skill_keywords, LAMBDA skill : Contains(text, lower(skill)))

\* found_skills after the keyword loop: the vocabulary entries that occur in
\* the lower-cased text, in vocabulary order
keyword_matches(text) ==
    LET text_lower == lower(text)
    IN  SelectSeq(skill_keywords, LAMBDA skill : Contains(text_lower, lower(skill)))

\* keyword_matches is a function of the text alone: its values, computed once
keyword_matches_of == [text \in AllTexts |-> keyword_matches(text)]

\* found_skills after the spaCy branch
entity_matches(text) ==
    LET ents == SelectSeq(doc_ents(text),
                          LAMBDA ent : ent.label_ \in {"ORG", "PRODUCT", "SKILL"})
    IN  [i \in 1..Len(ents) |-> lower(ents[i].text)]

\* JobMatcher.extract_skills_from_text
extract_skills_from_text(text) ==
    LET found_skills ==
            keyword_matches_of[text] \o (IF nlp THEN entity_matches(text) ELSE << >>)
    IN  SetToList(hashSeed, Range(found_skills))

(***************************************************************************)
(* JobMatcher.extract_experience_years.  The three patterns are matched    *)
(* greedily from a start position; no alternative of theirs can succeed    *)
(* after the greedy one failed (each optional part is followed by a part   *)
(* that cannot start with the character the option would have taken), so   *)
(* the greedy match is the match re.findall reports.  A matcher returns    *)
(* the position after the match, or 0.                                     *)
(***************************************************************************)
RECURSIVE SkipSpace(_, _)
\* \s*
SkipSpace(t, p) ==
    IF p <= Len(t) /\ IsSpace(CharAt(t, p)) THEN SkipSpace(t, p + 1) ELSE p

RECURSIVE SkipDigits(_, _)
\* \d* ; the capture group (\d+) is t[p .. SkipDigits(t, p) - 1]
SkipDigits(t, p) ==
    IF p <= Len(t) /\ IsDigit(CharAt(t, p)) THEN SkipDigits(t, p + 1) ELSE p

\* (?:lit)?
Optional(t, p, lit) == IF At(t, p, lit) THEN p + Len(lit) ELSE p

\* (?:experience|exp)
ExperienceOrExp(t, p) ==
    IF At(t, p, "experience") THEN p + Len("experience")
    ELSE IF At(t, p, "exp") THEN p + Len("exp")
    ELSE 0

\* (\d+)\s*(?:\+)?\s* : the common head of the three patterns
NumberHead(t, p) ==
    LET d == SkipDigits(t, p)
    IN  IF d = p THEN 0 ELSE SkipSpace(t, Optional(t, SkipSpace(t, d), "+"))

\* r'(\d+)\s*(?:\+)?\s*years?\s*(?:of\s*)?(?:experience|exp)'
MatchYearsOfExperience(t, p) ==
    LET h == NumberHead(t, p)
    IN  IF h = 0 \/ ~At(t, h, "year") THEN 0
        ELSE LET y == SkipSpace(t, Optional(t, h + Len("year"), "s"))
                 o == IF At(t, y, "of") THEN SkipSpace(t, y + Len("of")) ELSE y
             IN  ExperienceOrExp(t, o)

\* r'(\d+)\s*(?:\+)?\s*yrs?\s*(?:experience|exp)'
MatchYrsExperience(t, p) ==
    LET h == NumberHead(t, p)
    IN  IF h = 0 \/ ~At(t, h, "yr") THEN 0
        ELSE ExperienceOrExp(t, SkipSpace(t, Optional(t, h + Len("yr"), "s")))

\* r'(\d+)\s*(?:\+)?\s*years?\s*in'
MatchYearsIn(t, p) ==
    LET h == NumberHead(t, p)
    IN  IF h = 0 \/ ~At(t, h, "year") THEN 0
        ELSE LET y == SkipSpace(t, Optional(t, h + Len("year"), "s"))
             IN  IF At(t, y, "in") THEN y + Len("in") ELSE 0

\* patterns[k] matched at position p
MatchPattern(k, t, p) ==
    CASE k = 1 -> MatchYearsOfExperience(t, p)
      [] k = 2 -> MatchYrsExperience(t, p)
      [] k = 3 -> MatchYearsIn(t, p)

NumPatterns == 3

RECURSIVE findall(_, _, _)
\* re.findall(patterns[k], t) from position p on: the captured numbers of the
\* leftmost non-overlapping matches, converted by int().  Every pattern starts
\* with a digit, so the scan goes from digit to digit.
findall(k, t, p) ==
    LET digits == {q \in p..Len(t) : IsDigit(CharAt(t, q))}
    IN  IF digits = {} THEN << >>
        ELSE LET q == CHOOSE d \in digits : \A d2 \in digits : d <= d2
                 e == MatchPattern(k, t, q)
             IN  IF e = 0 THEN findall(k, t, q + 1)
                 ELSE <<int(SubSeq(t, q, SkipDigits(t, q) - 1))>> \o findall(k, t, e)

RECURSIVE all_years(_, _)
\* the list years after the loop over patterns[k..]
all_years(k, t) ==
    IF k > NumPatterns THEN << >> ELSE findall(k, t, 1) \o all_years(k + 1, t)

RECURSIVE Sum(_)
\* the sum of a sequence of numbers
Sum(xs) ==
    IF Len(xs) = 0 THEN 0
    ELSE IF Len(xs) = 1 THEN xs[1]
    ELSE LET h == Len(xs) \div 2
         IN  Sum(SubSeq(xs, 1, h)) + Sum(SubSeq(xs, h + 1, Len(xs)))

\* Python's max() of a non-empty list
MaxOf(xs) == CHOOSE m \in Range(xs) : \A x \in Range(xs) : x <= m

\* the captured numbers added up
sum_years(years) == Sum(years)

\* max(years) if years else 0
max_years(years) == IF years # << >> THEN MaxOf(years) ELSE 0

\* the list years is a function of the text alone: its values, computed once
years_of == [text \in AllTexts |-> all_years(1, lower(text))]

\* JobMatcher.extract_experience_years
extract_experience_years(text) == max_years(years_of[text])

(***************************************************************************)
(* Fixed-point floats: One is 1.0.                                         *)
(***************************************************************************)
One == 1000

Min(a, b) == IF a <= b THEN a ELSE b
Max(a, b) == IF a >= b THEN a ELSE b

(***************************************************************************)
(* TfidfVectorizer(max_features=1000, stop_words='english',                *)
(* ngram_range=(1, 2), min_df=1), fitted on the two documents of one call. *)
(* Its analyzer lower-cases, takes the runs of two or more word characters *)
(* as tokens, drops the stop words and emits the unigrams and bigrams.     *)
(* max_features is never reached by two documents of this model's size.    *)
(***************************************************************************)
\* the regex class \w, after lower-casing
WordChars == CharsOf(LowerCase) \cup CharsOf(Digits) \cup {"_"}

IsWordChar(c) == c \in WordChars

RECURSIVE SkipWord(_, _)
SkipWord(t, p) ==
    IF p <= Len(t) /\ IsWordChar(CharAt(t, p)) THEN SkipWord(t, p + 1) ELSE p

\* the elements of a finite set of integers, ascending
Ascending(S) ==
    [i \in 1..Cardinality(S) |-> CHOOSE p \in S : Cardinality({q \in S : q < p}) = i - 1]

\* token_pattern r"(?u)\b\w\w+\b" over the lower-cased text t: the maximal runs
\* of word characters that are at least two characters long, in text order
tokenize(t) ==
    LET starts == {p \in 1..Len(t) :
                      /\ IsWordChar(CharAt(t, p))
                      /\ (p = 1 \/ ~IsWordChar(CharAt(t, p - 1)))
                      /\ p < Len(t) /\ IsWordChar(CharAt(t, p + 1))}
        at == Ascending(starts) \o << >>
    IN  [i \in 1..Len(at) |-> SubSeq(t, at[i], SkipWord(t, at[i]) - 1)] \o << >>

\* the entries of sklearn's ENGLISH_STOP_WORDS that occur in this model's texts
stop_words ==
    { "an", "and", "the", "of", "in", "for", "with", "at", "no", "to", "is", "on",
      "or", "as", "by", "be", "it", "we", "are", "our", "you", "more", "than" }

\* build_analyzer()(doc): unigrams, then bigrams of the tokens left
analyze(doc) ==
    LET tokens == SelectSeq(tokenize(lower(doc)), LAMBDA w : w \notin stop_words)
    IN  tokens \o [i \in 1..(Len(tokens) - 1) |-> tokens[i] \o " " \o tokens[i + 1]]

\* term frequency of feature f in an analyzed document
tf(f, terms) == Cardinality({i \in 1..Len(terms) : terms[i] = f})

\* smooth idf over the 2-document corpus, ln((1 + 2) / (1 + df)) + 1, in tenths:
\* 1.4 for a feature of one document, 1.0 for a feature of both
idf(f, A, B) == IF f \in Range(A) /\ f \in Range(B) THEN 10 ELSE 14

\* the Euclidean norm of a vector whose squares sum to sumsq, rounded up
Norm(sumsq) == CHOOSE k \in 0..sumsq : k * k >= sumsq /\ (k = 0 \/ (k - 1) * (k - 1) < sumsq)

\* the characters of a feature, in code point order
FeatureChars == " 0123456789_abcdefghijklmnopqrstuvwxyz"

Code(c) == CHOOSE n \in 1..Len(FeatureChars) : SubSeq(FeatureChars, n, n) = c

\* a < b as Python compares two str
Before(a, b) ==
    LET differ == {i \in 1..Min(Len(a), Len(b)) : CharAt(a, i) # CharAt(b, i)}
    IN  IF differ = {} THEN Len(a) < Len(b)
        ELSE LET i == CHOOSE k \in differ : \A l \in differ : k <= l
             IN  Code(CharAt(a, i)) < Code(CharAt(b, i))

\* get_feature_names_out(): the distinct features of the two documents, sorted;
\* a feature's place is its column in the matrix and its index in idf_
feature_names(A, B) ==
    LET features == Range(A) \cup Range(B)
        placed == {<<f, Cardinality({g \in features : Before(g, f)})>> : f \in features}
    IN  [k \in 1..Cardinality(features) |->
            (CHOOSE pl \in placed : pl[2] = k - 1)[1]] \o << >>

\* CountVectorizer.fit_transform: the term counts of the two documents, a row each
term_counts(A, B) ==
    LET names == feature_names(A, B)
    IN  << [k \in 1..Len(names) |-> tf(names[k], A)] \o << >>,
           [k \in 1..Len(names) |-> tf(names[k], B)] \o << >> >>

\* TfidfTransformer.fit: the idf_ of the two documents, by column
idf_weights(A, B) ==
    LET names == feature_names(A, B)
    IN  [k \in 1..Len(names) |-> idf(names[k], A, B)] \o << >>

\* cosine_similarity(tfidf_matrix[0:1], tfidf_matrix[1:2])[0][0], where
\* tfidf_matrix is TfidfTransformer.transform of the term counts X with the
\* weights idf_v (as many as X has columns); a zero row has similarity 0
transform_cosine(idf_v, X) ==
    LET wA == [k \in 1..Len(idf_v) |-> X[1][k] * idf_v[k]] \o << >>
        wB == [k \in 1..Len(idf_v) |-> X[2][k] * idf_v[k]] \o << >>
        dot == Sum([k \in 1..Len(idf_v) |-> wA[k] * wB[k]])
        nA == Norm(Sum([k \in 1..Len(idf_v) |-> wA[k] * wA[k]]))
        nB == Norm(Sum([k \in 1..Len(idf_v) |-> wB[k] * wB[k]]))
    IN  IF nA = 0 \/ nB = 0 THEN 0 ELSE (dot * One) \div (nA * nB)

\* fit_transform of the analyzed documents A and B, then cosine_similarity
cosine_similarity(A, B) == transform_cosine(idf_weights(A, B), term_counts(A, B))

RECURSIVE join(_, _)
\* sep.join(strs)
join(sep, strs) ==
    IF strs = << >> THEN ""
    ELSE IF Len(strs) = 1 THEN strs[1]
    ELSE strs[1] \o sep \o join(sep, Tail(strs))

\* the f-string candidate_text of compute_similarity_score
candidate_text(candidate_data) ==
    "\n " \o candidate_data.about \o " \n "
        \o join(" ", candidate_data.skills) \o "\n "
        \o join(" ", [i \in 1..Len(candidate_data.experience) |->
                        candidate_data.experience[i].description]) \o "\n "
        \o join(" ", [i \in 1..Len(candidate_data.projects) |->
                        candidate_data.projects[i].description]) \o "\n"

\* self.vectorizer.fit_transform(texts) raises ValueError (empty vocabulary)
\* when no document has a feature
fit_raises(A, B) == A = << >> /\ B = << >>

\* the body of JobMatcher.compute_similarity_score: the float it returns,
\* whether the fit raised (caught by the bare except), the term counts X of
\* the two texts, and the vocabulary_ and idf_ a successful fit leaves in
\* self.vectorizer
similarity_call(job_description, candidate_data) ==
    LET A == analyze(job_description)
        B == analyze(candidate_text(candidate_data))
    IN  IF fit_raises(A, B)
        THEN [value |-> 0, raised |-> TRUE, X |-> << << >>, << >> >>,
              vocabulary_ |-> {}, idf_ |-> << >>]
        ELSE [value |-> cosine_similarity(A, B), raised |-> FALSE,
              X |-> term_counts(A, B),
              vocabulary_ |-> Range(A) \cup Range(B), idf_ |-> idf_weights(A, B)]

\* similarity_call is a function of its arguments alone: its values, computed once
similarity_calls ==
    [job_description \in JobTexts |->
        [candidate_data \in CandidatePool |->
            similarity_call(job_description, candidate_data)]]

\* JobMatcher.compute_similarity_score: the float it returns
compute_similarity_score(job_description, candidate_data) ==
    similarity_calls[job_description][candidate_data].value

\* JobMatcher.compute_similarity_score: self.vectorizer after the call that
\* found it in state vec; a fit that raises leaves the vocabulary as it was
fitted_vectorizer(vec, job_description, candidate_data) ==
    LET fit == similarity_calls[job_description][candidate_data]
    IN  IF fit.raised THEN vec
        ELSE [fitted |-> TRUE, vocabulary_ |-> fit.vocabulary_, idf_ |-> fit.idf_]

(***************************************************************************)
(* JobMatcher.rank_candidates.  A component score s is the integer         *)
(* s * One; the composite score is kept in units of 1 / (10 * One).        *)
(***************************************************************************)
\* Python truthiness of a string: non-empty
Truthy(str) == str # ""

lower_all(strs) == [i \in 1..Len(strs) |-> lower(strs[i])]

\* len(set(job_skills) & set([s.lower() for s in candidate_skills]))
skill_matches(job_skills, candidate_skills) ==
    Cardinality(Range(job_skills) \cap Range(lower_all(candidate_skills)))

skill_score(job_skills, candidate) ==
    (skill_matches(job_skills, candidate.skills) * One) \div Max(Len(job_skills), 1)

\* len([exp for exp in candidate.get('experience', []) if exp.get('company')])
candidate_exp(candidate) ==
    Len(SelectSeq(candidate.experience, LAMBDA exp : Truthy(exp.company)))

experience_score(job_experience_req, candidate) ==
    Min((candidate_exp(candidate) * One) \div Max(job_experience_req, 1), One)

\* len([edu for edu in candidate.get('education', []) if edu.get('degree')])
candidate_edu(candidate) ==
    Len(SelectSeq(candidate.education, LAMBDA edu : Truthy(edu.degree)))

\* an education score without its cap
education_uncapped(candidate) == candidate_edu(candidate) * (One \div 5)

education_score(candidate) == Min(candidate_edu(candidate) * (One \div 5), One)

\* similarity * 0.4 + skill * 0.3 + experience * 0.2 + education * 0.1, times 10
final_score(similarity, skill, experience, education) ==
    similarity * 4 + skill * 3 + experience * 2 + education * 1

\* [s for s in job_skills if s.lower() in [cs.lower() for cs in candidate_skills]]
matched_skills(job_skills, candidate_skills) ==
    SelectSeq(job_skills, LAMBDA s : lower(s) \in Range(lower_all(candidate_skills)))

\* the dict appended to scored_candidates for one candidate, given the
\* similarity_score that compute_similarity_score returned for it
scored_with(similarity, job_skills, job_experience_req, candidate) ==
    LET skill == skill_score(job_skills, candidate)
        experience == experience_score(job_experience_req, candidate)
        education == education_score(candidate)
    IN  [candidate |-> candidate,
         score |-> final_score(similarity, skill, experience, education),
         similarity_score |-> similarity,
         skill_score |-> skill,
         experience_score |-> experience,
         education_score |-> education,
         matched_skills |-> matched_skills(job_skills, candidate.skills)]

\* the dict appended to scored_candidates for one candidate
scored_candidate(job_description, job_skills, job_experience_req, candidate) ==
    scored_with(compute_similarity_score(job_description, candidate),
                job_skills, job_experience_req, candidate)

\* a descending sort that puts an entry before the entries of equal score
InsertBeforeEqual(sorted, x) ==
    LET k == Cardinality({i \in 1..Len(sorted) : sorted[i].score > x.score})
    IN  SubSeq(sorted, 1, k) \o <<x>> \o SubSeq(sorted, k + 1, Len(sorted))

\* one step of a stable descending sort: x goes after every entry whose score
\* is at least its own
InsertDescending(sorted, x) ==
    LET k == Cardinality({i \in 1..Len(sorted) : sorted[i].score >= x.score})
    IN  SubSeq(sorted, 1, k) \o <<x>> \o SubSeq(sorted, k + 1, Len(sorted))

RECURSIVE sorted_by_score(_)
\* sorted(xs, key=lambda x: x['score'], reverse=True)
sorted_by_score(xs) ==
    IF xs = << >> THEN << >>
    ELSE InsertDescending(sorted_by_score(SubSeq(xs, 1, Len(xs) - 1)), xs[Len(xs)])

\* JobMatcher.rank_candidates: the list it returns
JobMatcher_rank_candidates(job_description, candidates_list) ==
    LET job_skills == extract_skills_from_text(job_description)
        job_experience_req == extract_experience_years(job_description)
        scored_candidates ==
            [i \in 1..Len(candidates_list) |->
                scored_candidate(job_description, job_skills, job_experience_req,
                                 candidates_list[i])]
    IN  sorted_by_score(scored_candidates)

\* JobMatcher.rank_candidates: self.vectorizer after the loop, the vocabulary
\* of the last candidate whose fit did not raise
ranked_vectorizer(vec, job_description, candidates_list) ==
    LET fitted == {i \in 1..Len(candidates_list) :
                      ~similarity_calls[job_description][candidates_list[i]].raised}
    IN  IF fitted = {} THEN vec
        ELSE LET last == CHOOSE i \in fitted : \A j \in fitted : j <= i
             IN  fitted_vectorizer(vec, job_description, candidates_list[last])

Seeds == 0..(NumSeeds - 1)

(***************************************************************************)
(* The JobMatcher methods called on their own.                             *)
(***************************************************************************)
MatcherCalls ==
    [op : {"extract_skills_from_text", "extract_experience_years"}, text : Texts \cup JobTexts]
        \cup [op : {"compute_similarity_score"}, job_description : JobTexts,
              candidate_data : CandidatePool]
        \cup [op : {"JobMatcher.rank_candidates"}, job_description : JobTexts,
              candidates_list : CandidateLists]

InitMatcher ==
    /\ hashSeed \in Seeds
    /\ nlp \in BOOLEAN
    /\ vectorizer = Unfitted
    /\ call \in MatcherCalls
    /\ ret = Pending

ExtractSkillsFromText ==
    /\ call.op = "extract_skills_from_text"
    /\ ret = Pending
    /\ ret' = Returned(extract_skills_from_text(call.text))
    /\ UNCHANGED <<hashSeed, nlp, vectorizer, call>>

ExtractExperienceYears ==
    /\ call.op = "extract_experience_years"
    /\ ret = Pending
    /\ ret' = Returned(extract_experience_years(call.text))
    /\ UNCHANGED <<hashSeed, nlp, vectorizer, call>>

ComputeSimilarityScore ==
    /\ call.op = "compute_similarity_score"
    /\ ret = Pending
    /\ ret' = Returned(compute_similarity_score(call.job_description, call.candidate_data))
    /\ vectorizer' = fitted_vectorizer(vectorizer, call.job_description, call.candidate_data)
    /\ UNCHANGED <<hashSeed, nlp, call>>

RankCandidates ==
    /\ call.op = "JobMatcher.rank_candidates"
    /\ ret = Pending
    /\ ret' = Returned(JobMatcher_rank_candidates(call.job_description, call.candidates_list))
    /\ vectorizer' = ranked_vectorizer(vectorizer, call.job_description, call.candidates_list)
    /\ UNCHANGED <<hashSeed, nlp, call>>

NextMatcher ==
    \/ ExtractSkillsFromText
    \/ ExtractExperienceYears
    \/ ComputeSimilarityScore
    \/ RankCandidates

SpecMatcher == InitMatcher /\ [][NextMatcher]_vars

(***************************************************************************)
(* The JSON endpoints.  A request carries its method and its decoded body; *)
(* fault says what is wrong with the body, if anything:                    *)
(*   malformed_body           json.loads raises JSONDecodeError            *)
(*   job_description_not_str  "job_description" is a number                *)
(*   profile_not_dict         the first candidate, or the resume, is a     *)
(*                            non-empty JSON value that is not an object   *)
(* The fields of a faulty body that the fault does not touch are as given; *)
(* a request has a fault only where its body has the field to be wrong.    *)
(***************************************************************************)
Methods == {"POST", "GET"}
Faults == {"none", "malformed_body", "job_description_not_str", "profile_not_dict"}

\* str(e) of the exceptions the faults raise
JSONDecodeError == "Expecting value: line 1 column 1 (char 0)"
NoStrip == "'int' object has no attribute 'strip'"
NoLower == "'int' object has no attribute 'lower'"
NoGet == "'int' object has no attribute 'get'"

ExceptionTexts == {JSONDecodeError, NoStrip, NoLower, NoGet}

\* xs[:n]
Take(xs, n) == SubSeq(xs, 1, Min(n, Len(xs)))

\* JsonResponse({'success': False, 'error': message})
failure(message) == [success |-> FALSE, error |-> message]

\* except Exception as e: return JsonResponse({'success': False, 'error': str(e)})
except_Exception(e) == failure(e)

\* generate_job_recommendations
generate_job_recommendations(job_description, found_skills) ==
    LET text == lower(job_description)
    IN  << "Highlight relevant technical skills prominently in your summary section",
           "Use action verbs and quantify achievements with specific metrics",
           "Tailor your project descriptions to match the job requirements" >>
        \o (IF found_skills # << >>
            THEN <<"Emphasize your experience with: " \o join(", ", Take(found_skills, 3))>>
            ELSE << >>)
        \o (IF Contains(text, "agile") \/ Contains(text, "scrum")
            THEN <<"Highlight your experience with Agile methodologies">>
            ELSE << >>)
        \o (IF Contains(text, "lead") \/ Contains(text, "senior")
            THEN <<"Emphasize leadership experience and mentoring capabilities">>
            ELSE << >>)

\* [s for s in job_skills if s.lower() not in resume_skills]
missing_skills(job_skills, resume_skills) ==
    SelectSeq(job_skills, LAMBDA s : lower(s) \notin Range(lower_all(resume_skills)))

\* suggestions that name every missing skill
suggestions_naming_all(job_description, resume_data) ==
    LET job_skills == extract_skills_from_text(job_description)
        missing == missing_skills(job_skills, resume_data.skills)
    IN  (IF missing # << >>
         THEN <<"Consider adding these skills: " \o join(", ", missing)>>
         ELSE << >>)
        \o (IF Len(resume_data.projects) < 2
            THEN <<"Add more project examples to demonstrate your technical abilities">>
            ELSE << >>)
        \o (IF IsBlank(resume_data.about)
            THEN <<"Add a compelling professional summary highlighting your key strengths">>
            ELSE << >>)

\* generate_improvement_suggestions
generate_improvement_suggestions(job_description, resume_data) ==
    LET job_skills == extract_skills_from_text(job_description)
        missing == missing_skills(job_skills, resume_data.skills)
        suggestions ==
            (IF missing # << >>
             THEN <<"Consider adding these skills: " \o join(", ", Take(missing, 3))>>
             ELSE << >>)
            \o (IF Len(resume_data.projects) < 2
                THEN <<"Add more project examples to demonstrate your technical abilities">>
                ELSE << >>)
            \o (IF IsBlank(resume_data.about)
                THEN <<"Add a compelling professional summary highlighting your key strengths">>
                ELSE << >>)
    IN  Take(suggestions, 4)

\* ai_analyze_job: the response
ai_analyze_job(request) ==
    IF request.method # "POST" THEN failure("Invalid request method")
    ELSE IF request.fault = "malformed_body" THEN except_Exception(JSONDecodeError)
    ELSE IF request.fault = "job_description_not_str" THEN except_Exception(NoStrip)
    ELSE IF IsBlank(request.job_description) THEN failure("Job description is required")
    ELSE LET found_skills == extract_skills_from_text(request.job_description)
         IN  [success |-> TRUE,
              key_skills |-> Take(found_skills, 8),
              recommendations |->
                  generate_job_recommendations(request.job_description, found_skills),
              experience_years |-> extract_experience_years(request.job_description)]

\* np.mean(scores) if ranked_results else 0
avg_score(ranked_results) ==
    IF ranked_results # << >>
    THEN Sum([i \in 1..Len(ranked_results) |-> ranked_results[i].score])
             \div Len(ranked_results)
    ELSE 0

\* the rank_candidates endpoint: whether the request gets past validation
rank_candidates_validated(request) ==
    /\ request.method = "POST"
    /\ request.fault # "malformed_body"
    /\ (request.fault = "job_description_not_str" \/ Truthy(request.job_description))
    /\ request.candidates # << >>

\* a response that averages over the candidates it returns
rank_response_top_only(ranked_results, candidates) ==
    [success |-> TRUE,
     ranked_candidates |-> Take(ranked_results, TopN),
     total_candidates |-> Len(candidates),
     avg_score |-> avg_score(Take(ranked_results, TopN))]

\* the rank_candidates endpoint: the JsonResponse of a successful call
rank_response(ranked_results, candidates) ==
    [success |-> TRUE,
     ranked_candidates |-> Take(ranked_results, TopN),
     total_candidates |-> Len(candidates),
     avg_score |-> avg_score(ranked_results)]

\* the rank_candidates endpoint: the response
rank_candidates(request) ==
    IF request.method # "POST" THEN failure("Invalid request method")
    ELSE IF request.fault = "malformed_body" THEN except_Exception(JSONDecodeError)
    ELSE IF ~rank_candidates_validated(request)
    THEN failure("Job description and candidates are required")
    ELSE IF request.fault = "job_description_not_str" THEN except_Exception(NoLower)
    ELSE IF request.fault = "profile_not_dict" THEN except_Exception(NoGet)
    ELSE rank_response(
             JobMatcher_rank_candidates(request.job_description, request.candidates),
             request.candidates)

\* the rank_candidates endpoint: job_matcher.vectorizer afterwards; a fault
\* raises before the first fit
rank_candidates_vectorizer(vec, request) ==
    IF rank_candidates_validated(request) /\ request.fault = "none"
    THEN ranked_vectorizer(vec, request.job_description, request.candidates)
    ELSE vec

\* Python truthiness of the decoded "resume_data": a non-empty object
HasProfile(resume_data) == DOMAIN resume_data # {}

\* match_resume_to_job: whether the request gets past validation
match_resume_validated(request) ==
    /\ request.method = "POST"
    /\ request.fault # "malformed_body"
    /\ (request.fault = "job_description_not_str" \/ Truthy(request.job_description))
    /\ (request.fault = "profile_not_dict" \/ HasProfile(request.resume_data))

\* round(similarity_score * 100, 2), in hundredths of a percent
match_score(similarity_score) == (similarity_score * 100 * 100) \div One

\* match_resume_to_job: the response
match_resume_to_job(request) ==
    IF request.method # "POST" THEN failure("Invalid request method")
    ELSE IF request.fault = "malformed_body" THEN except_Exception(JSONDecodeError)
    ELSE IF ~match_resume_validated(request)
    THEN failure("Job description and resume data are required")
    ELSE IF request.fault = "profile_not_dict" THEN except_Exception(NoGet)
    ELSE IF request.fault = "job_description_not_str" THEN except_Exception(NoLower)
    ELSE LET job_description == request.job_description
             resume_data == request.resume_data
             similarity_score == compute_similarity_score(job_description, resume_data)
             job_skills == extract_skills_from_text(job_description)
             resume_skills == resume_data.skills
         IN  [success |-> TRUE,
              match_score |-> match_score(similarity_score),
              matched_skills |-> matched_skills(job_skills, resume_skills),
              missing_skills |-> Take(missing_skills(job_skills, resume_skills), 5),
              improvement_suggestions |->
                  generate_improvement_suggestions(job_description, resume_data)]

\* match_resume_to_job: job_matcher.vectorizer afterwards; with a number for
\* job_description the fit raises inside compute_similarity_score
match_resume_vectorizer(vec, request) ==
    IF match_resume_validated(request) /\ request.fault = "none"
    THEN fitted_vectorizer(vec, request.job_description, request.resume_data)
    ELSE vec

(***************************************************************************)
(* The requests of the model.                                              *)
(***************************************************************************)
\* the decoded body {} of "resume_data", also its default when the key is missing
EmptyDict == << >>

RequestJobs == { JobExample, JobStack, "  ", "" }

RequestLists ==
    ListsOf({Alice, Blank, Senior}, MaxCandidates)
        \cup {l \in LongLists : l[1] \in {Alice, Nobody} /\ l[Len(l)] \in {Senior, Nobody}}

RequestHeads == {m \in [method : Methods, fault : Faults] : m.method = "GET" => m.fault = "none"}

Requests ==
    {[op |-> "ai_analyze_job", method |-> h.method, fault |-> h.fault,
      job_description |-> j] :
         h \in {m \in RequestHeads : m.fault # "profile_not_dict"}, j \in JobTexts}
    \cup {r \in {[op |-> "rank_candidates", method |-> h.method, fault |-> h.fault,
                  job_description |-> j, candidates |-> l] :
                    h \in RequestHeads, j \in RequestJobs, l \in RequestLists} :
             r.fault = "profile_not_dict" => r.candidates # << >>}
    \cup {[op |-> "match_resume_to_job", method |-> h.method, fault |-> h.fault,
           job_description |-> j, resume_data |-> r] :
             h \in RequestHeads, j \in RequestJobs, r \in CandidatePool \cup {EmptyDict}}

(***************************************************************************)
(* The server: one process run, handling one request after another.        *)
(***************************************************************************)
Init ==
    /\ hashSeed \in Seeds
    /\ nlp \in BOOLEAN
    /\ vectorizer = Unfitted
    /\ call = Idle
    /\ ret = Idle

\* a request arrives and is dispatched to its view
Receive ==
    /\ call = Idle
    /\ call' \in Requests
    /\ ret' = Pending
    /\ UNCHANGED <<hashSeed, nlp, vectorizer>>

AiAnalyzeJob ==
    /\ call.op = "ai_analyze_job"
    /\ ret = Pending
    /\ ret' = Returned(ai_analyze_job(call))
    /\ UNCHANGED <<hashSeed, nlp, vectorizer, call>>

RankCandidatesView ==
    /\ call.op = "rank_candidates"
    /\ ret = Pending
    /\ ret' = Returned(rank_candidates(call))
    /\ vectorizer' = rank_candidates_vectorizer(vectorizer, call)
    /\ UNCHANGED <<hashSeed, nlp, call>>

MatchResumeToJob ==
    /\ call.op = "match_resume_to_job"
    /\ ret = Pending
    /\ ret' = Returned(match_resume_to_job(call))
    /\ vectorizer' = match_resume_vectorizer(vectorizer, call)
    /\ UNCHANGED <<hashSeed, nlp, call>>

\* the response is sent; the request's data is discarded
Respond ==
    /\ call # Idle
    /\ ret # Pending
    /\ call' = Idle
    /\ ret' = Idle
    /\ UNCHANGED <<hashSeed, nlp, vectorizer>>

Next ==
    \/ Receive
    \/ AiAnalyzeJob
    \/ RankCandidatesView
    \/ MatchResumeToJob
    \/ Respond

Spec == Init /\ [][Next]_vars

(***************************************************************************)
(* Requests handled at the same time.  The threads of the server share the *)
(* one job_matcher of the process, and each runs JobMatcher.rank_candidates *)
(* for its own request.  For every candidate, self.vectorizer.fit_transform *)
(* first fits: it counts the terms of the two texts (a matrix X local to    *)
(* the call) and stores vocabulary_ and idf_ in the vectorizer; then it     *)
(* transforms X with the idf_ the vectorizer holds at that moment.  Another *)
(* thread may run between the two.  Here call and ret hold one entry per    *)
(* thread; a call also holds the similarity scores computed so far and      *)
(* whether the fit of its current candidate is done.                        *)
(***************************************************************************)
NumThreads == 2

Threads == 1..NumThreads

ThreadCalls ==
    {[op |-> "JobMatcher.rank_candidates", job_description |-> j, candidates_list |-> l,
      similarity_scores |-> << >>, fit_done |-> FALSE] :
         j \in {JobExample, JobStack},
         l \in ListsOf({Alice, Nobody}, MaxCandidates) \ {<< >>}}

InitThreads ==
    /\ hashSeed \in Seeds
    /\ nlp \in BOOLEAN
    /\ vectorizer = Unfitted
    /\ call \in [Threads -> ThreadCalls]
    /\ ret = [t \in Threads |-> Pending]

\* the candidate thread t is computing the similarity of
current(t) == call[t].candidates_list[Len(call[t].similarity_scores) + 1]

\* the loop of thread t has a candidate left
InLoop(t) ==
    /\ ret[t] = Pending
    /\ Len(call[t].similarity_scores) < Len(call[t].candidates_list)

\* TfidfTransformer.transform of the term counts X with the idf_ of vec, then
\* cosine_similarity; idf_ of another length than X has columns raises
\* ValueError, which the bare except turns into 0.0
transform_with(vec, X) ==
    IF Len(vec.idf_) # Len(X[1]) THEN 0 ELSE transform_cosine(vec.idf_, X)

\* fit_transform, first half: the fit; an empty vocabulary raises before
\* anything is stored, and the call returns 0.0
Fit(t) ==
    /\ InLoop(t)
    /\ ~call[t].fit_done
    /\ LET fit == similarity_calls[call[t].job_description][current(t)]
       IN  IF fit.raised
           THEN /\ call' = [call EXCEPT ![t].similarity_scores = Append(@, 0)]
                /\ UNCHANGED vectorizer
           ELSE /\ call' = [call EXCEPT ![t].fit_done = TRUE]
                /\ vectorizer' =
                       fitted_vectorizer(vectorizer, call[t].job_description, current(t))
    /\ UNCHANGED <<hashSeed, nlp, ret>>

\* fit_transform, second half, and the rest of compute_similarity_score
Transform(t) ==
    /\ InLoop(t)
    /\ call[t].fit_done
    /\ LET fit == similarity_calls[call[t].job_description][current(t)]
       IN  call' = [call EXCEPT ![t].fit_done = FALSE,
                                ![t].similarity_scores =
                                    Append(@, transform_with(vectorizer, fit.X))]
    /\ UNCHANGED <<hashSeed, nlp, vectorizer, ret>>

\* the loop is over: the scored candidates are sorted and returned
Return(t) ==
    /\ ret[t] = Pending
    /\ Len(call[t].similarity_scores) = Len(call[t].candidates_list)
    /\ LET job_skills == extract_skills_from_text(call[t].job_description)
           job_experience_req == extract_experience_years(call[t].job_description)
           scored_candidates ==
               [i \in 1..Len(call[t].candidates_list) |->
                   scored_with(call[t].similarity_scores[i], job_skills,
                               job_experience_req, call[t].candidates_list[i])]
       IN  ret' = [ret EXCEPT ![t] = Returned(sorted_by_score(scored_candidates))]
    /\ UNCHANGED <<hashSeed, nlp, vectorizer, call>>

NextThreads == \E t \in Threads : Fit(t) \/ Transform(t) \/ Return(t)

SpecThreads == InitThreads /\ [][NextThreads]_vars

(***************************************************************************)
(* Start-up: the URL configuration imports home.views, whose module body   *)
(* imports spacy, loads the model inside try/except OSError and creates    *)
(* job_matcher.  The ways the capability can fail to initialize:           *)
(*   import_raises  "import spacy" raises (the package is missing or       *)
(*                  broken): the import is outside the try                 *)
(*   OSError        spacy.load raises OSError (the model is not installed) *)
(*   load_raises    spacy.load raises another exception (a model that does *)
(*                  not fit the installed spaCy, a broken model package)   *)
(* While the module is being imported no model is bound to nlp, and an     *)
(* exception that leaves the module body ends the start-up.                *)
(***************************************************************************)
SpacyOutcomes == {"loaded", "import_raises", "OSError", "load_raises"}

Importing == [op |-> "import home.views"]

\* the exception left the module body: home.views, and with it the URL
\* configuration, cannot be imported
ImportFailed(outcome) == [op |-> "import home.views", raised |-> outcome]

InitStartUp ==
    /\ hashSeed \in Seeds
    /\ nlp = FALSE
    /\ vectorizer = Unfitted
    /\ call = Importing
    /\ ret = Pending

\* the module body of home.views, lines 1 to 148
ImportViews ==
    /\ call = Importing
    /\ \E outcome \in SpacyOutcomes :
           IF outcome \in {"loaded", "OSError"}
           THEN /\ nlp' = (outcome = "loaded")
                /\ call' = Idle
                /\ ret' = Idle
           ELSE /\ call' = ImportFailed(outcome)
                /\ UNCHANGED <<nlp, ret>>
    /\ UNCHANGED <<hashSeed, vectorizer>>

NextStartUp ==
    \/ ImportViews
    \/ Next

SpecStartUp == InitStartUp /\ [][NextStartUp]_vars

(***************************************************************************)
(* Properties.                                                             *)
(***************************************************************************)
HasReturned == "value" \in DOMAIN ret

\* the JobMatcher method named op has returned
MethodReturned(op) == call.op = op /\ HasReturned

\* the score rank_candidates gives a candidate of the call in progress
ScoreOf(candidate) ==
    scored_candidate(call.job_description,
                     extract_skills_from_text(call.job_description),
                     extract_experience_years(call.job_description),
                     candidate).score

\* the candidates of the entries of xs
CandidatesOf(xs) == [i \in 1..Len(xs) |-> xs[i].candidate]

\* C1: the list rank_candidates returns has one MatchResult per input
\* candidate, is sorted non-increasing by score, and lists the candidates of
\* any one score in the order the input lists them (so it is a permutation of
\* the input, and a stable one).
C1_RankedSortedStable ==
    MethodReturned("JobMatcher.rank_candidates") =>
        LET out == ret.value
            input == call.candidates_list
        IN  /\ Len(out) = Len(input)
            /\ \A i \in 1..Len(out) : out[i].score = ScoreOf(out[i].candidate)
            /\ \A i \in 1..(Len(out) - 1) : out[i].score >= out[i + 1].score
            /\ \A s \in {ScoreOf(c) : c \in Range(input)} \cup {out[i].score : i \in 1..Len(out)} :
                   CandidatesOf(SelectSeq(out, LAMBDA r : r.score = s))
                       = SelectSeq(input, LAMBDA c : ScoreOf(c) = s)

\* a ranking that had to move an entry and that holds two different
\* candidates of equal score
C1_Witness ==
    /\ MethodReturned("JobMatcher.rank_candidates")
    /\ \E i, j \in 1..Len(call.candidates_list) :
           i < j /\ ScoreOf(call.candidates_list[i]) < ScoreOf(call.candidates_list[j])
    /\ \E i, j \in 1..Len(ret.value) :
           /\ i < j
           /\ ret.value[i].score = ret.value[j].score
           /\ ret.value[i].candidate # ret.value[j].candidate

\* the endpoint named op has returned its response to a POST request
EndpointReturned(op) == call.op = op /\ HasReturned /\ call.method = "POST"

EndpointOps == {"ai_analyze_job", "rank_candidates", "match_resume_to_job"}

\* a reported failure: success false, an error message, no result field
IsFailure(response) ==
    /\ DOMAIN response = {"success", "error"}
    /\ response.success = FALSE

\* C2: a request whose body raises an internal fault is answered with a
\* structured failure {success: false, error: message} whose message is
\* generic, that is, not the text of the exception raised.
C2_FaultReportedGeneric ==
    \A op \in EndpointOps :
        (EndpointReturned(op) /\ call.fault # "none") =>
            /\ IsFailure(ret.value)
            /\ ret.value.error \notin ExceptionTexts

\* no character of s is anything but white space
OnlyWhiteSpace(s) == \A i \in 1..Len(s) : SubSeq(s, i, i) \in {" ", "\t", "\n", "\r", "\f"}

\* the inputs each endpoint rejects
Rejected(request) ==
    CASE request.op = "ai_analyze_job" -> OnlyWhiteSpace(request.job_description)
      [] request.op = "rank_candidates" ->
             request.job_description = "" \/ request.candidates = << >>
      [] request.op = "match_resume_to_job" ->
             \/ request.job_description = ""
             \/ (request.fault = "none" /\ DOMAIN request.resume_data = {})

ValidationErrors ==
    { "Job description is required",
      "Job description and candidates are required",
      "Job description and resume data are required" }

\* C3: a request whose job description is empty (for AnalyzeJob: empty or
\* whitespace-only), whose candidate list is empty or whose resume is missing
\* or empty is answered with the validation failure, whatever the rest of the
\* body would make the computation do; every other well-formed request is
\* answered with success true.
C3_ValidationFirst ==
    \A op \in EndpointOps :
        (EndpointReturned(op) /\ call.fault \in {"none", "profile_not_dict"}) =>
            /\ Rejected(call) =>
                   IsFailure(ret.value) /\ ret.value.error \in ValidationErrors
            /\ (~Rejected(call) /\ call.fault = "none") => ret.value.success = TRUE

\* AnalyzeJob has rejected a whitespace-only job description
C3_Witness ==
    /\ EndpointReturned("ai_analyze_job")
    /\ call.fault = "none"
    /\ call.job_description = "  "
    /\ IsFailure(ret.value)

\* C4: a successful RankCandidates response holds the first min(n, 10) entries
\* of the ranking of all n candidates, total_candidates = n, and as avg_score
\* the mean of the n scores (rounded down to the score unit); the average of
\* an empty ranking is 0.
C4_TopTenAndMean ==
    /\ avg_score(<< >>) = 0
    /\ (EndpointReturned("rank_candidates") /\ ret.value.success) =>
           LET n == Len(call.candidates)
               ranking == JobMatcher_rank_candidates(call.job_description, call.candidates)
               top == ret.value.ranked_candidates
               total == Sum([i \in 1..n |-> ScoreOf(call.candidates[i])])
           IN  /\ Len(top) = Min(n, TopN)
               /\ \A i \in 1..Len(top) : top[i] = ranking[i]
               /\ \A i \in 1..Len(top) : \A j \in (Len(top) + 1)..n :
                      top[i].score >= ranking[j].score
               /\ ret.value.total_candidates = n
               /\ ret.value.avg_score * n <= total
               /\ total < (ret.value.avg_score + 1) * n

\* more than ten candidates, and the omitted ones change the mean
C4_Witness ==
    /\ EndpointReturned("rank_candidates")
    /\ ret.value.success
    /\ Len(call.candidates) > TopN
    /\ Len(ret.value.ranked_candidates) = TopN
    /\ ret.value.avg_score # avg_score(ret.value.ranked_candidates)

\* the vocabulary entries among xs, in vocabulary order
Canonical(xs) == SelectSeq(skill_keywords, LAMBDA k : k \in Range(xs))

\* the vocabulary entries among xs, in the order xs lists them
VocabularyPart(xs) == SelectSeq(xs, LAMBDA x : x \in Range(skill_keywords))

\* C5: extract_skills_from_text lists the skills it finds in the order of the
\* skill vocabulary, in every process run.
C5_VocabularyOrder ==
    MethodReturned("extract_skills_from_text") =>
        VocabularyPart(ret.value) = Canonical(ret.value)

\* k occurs in the text once every upper-case letter is replaced by its
\* lower-case letter
OccursLowered(k, text) ==
    \E p \in 1..(Len(text) - Len(k) + 1) :
        \A i \in 1..Len(k) :
            LET c == SubSeq(text, p + i - 1, p + i - 1)
                u == {n \in 1..Len(UpperCase) : SubSeq(UpperCase, n, n) = c}
            IN  SubSeq(k, i, i) =
                    (IF u = {} THEN c
                     ELSE LET n == CHOOSE m \in u : TRUE IN SubSeq(LowerCase, n, n))

\* C6: without spaCy, extract_skills_from_text returns, without duplicates,
\* exactly the vocabulary entries that occur as a substring of the lower-cased
\* text.
C6_KeywordSubstrings ==
    (MethodReturned("extract_skills_from_text") /\ ~nlp) =>
        /\ \A i, j \in 1..Len(ret.value) : ret.value[i] = ret.value[j] => i = j
        /\ Range(ret.value) =
               {k \in Range(skill_keywords) : OccursLowered(k, call.text)}

\* an upper-case occurrence and an occurrence inside a word are both found
C6_Witness ==
    /\ MethodReturned("extract_skills_from_text")
    /\ ~nlp
    /\ call.text = "maintain AWS"
    /\ Range(ret.value) = {"ai", "aws"}

\* the numbers of the lower-cased text t that start a match of some pattern
Captured(t) ==
    LET starts == {p \in 1..Len(t) :
                      /\ IsDigit(CharAt(t, p))
                      /\ (p = 1 \/ ~IsDigit(CharAt(t, p - 1)))
                      /\ \E k \in 1..NumPatterns : MatchPattern(k, t, p) # 0}
    IN  {int(SubSeq(t, p, SkipDigits(t, p) - 1)) : p \in starts}

\* C7: extract_experience_years returns the largest number captured by any
\* pattern, 0 if none matches, and never a negative number; the two texts of
\* the specification give 5 and 0.
C7_MaxCapturedYears ==
    MethodReturned("extract_experience_years") =>
        LET captured == Captured(lower(call.text))
        IN  /\ ret.value >= 0
            /\ captured = {} => ret.value = 0
            /\ captured # {} =>
                   ret.value \in captured /\ \A n \in captured : n <= ret.value
            /\ call.text = "5 years of experience, 3 years in management" => ret.value = 5
            /\ call.text = "no experience mentioned" => ret.value = 0

\* two patterns capture two different numbers
C7_Witness ==
    /\ MethodReturned("extract_experience_years")
    /\ call.text = "5 years of experience, 3 years in management"
    /\ Captured(lower(call.text)) = {3, 5}
    /\ ret.value = 5

\* C8: in every MatchResult the skill, experience and education scores lie in
\* [0, 1], the composite score is 0.4 similarity + 0.3 skill + 0.2 experience
\* + 0.1 education, and it lies in [0, 1] when the similarity does.
C8_ScoresBounded ==
    MethodReturned("JobMatcher.rank_candidates") =>
        \A i \in 1..Len(ret.value) :
            LET r == ret.value[i]
            IN  /\ 0 <= r.skill_score /\ r.skill_score <= One
                /\ 0 <= r.experience_score /\ r.experience_score <= One
                /\ 0 <= r.education_score /\ r.education_score <= One
                /\ r.score = 4 * r.similarity_score + 3 * r.skill_score
                                 + 2 * r.experience_score + r.education_score
                /\ (0 <= r.similarity_score /\ r.similarity_score <= One) =>
                       (0 <= r.score /\ r.score <= 10 * One)

\* no required years, more employers than years, and more than five degrees
C8_Witness ==
    /\ MethodReturned("JobMatcher.rank_candidates")
    /\ extract_experience_years(call.job_description) = 0
    /\ \E i \in 1..Len(ret.value) :
           /\ Len(ret.value[i].candidate.education) > 5
           /\ Len(ret.value[i].candidate.experience) > 1
           /\ ret.value[i].education_score = One
           /\ ret.value[i].experience_score = One

\* the entries of a list of records whose field is not empty or whitespace-only
Present(entries, field) ==
    Cardinality({i \in 1..Len(entries) : ~OnlyWhiteSpace(entries[i][field])})

\* C9: the experience score counts only the experience entries whose company
\* is neither empty nor whitespace-only, and the education score only the
\* education entries whose degree is neither empty nor whitespace-only.
C9_BlankEntriesExcluded ==
    MethodReturned("JobMatcher.rank_candidates") =>
        LET required == extract_experience_years(call.job_description)
        IN  \A i \in 1..Len(ret.value) :
                LET r == ret.value[i]
                    k == Present(r.candidate.experience, "company")
                    d == Present(r.candidate.education, "degree")
                IN  /\ r.experience_score =
                           Min((k * One) \div Max(required, 1), One)
                    /\ r.education_score = Min(d * (One \div 5), One)

\* the job skills of the request in progress
JobSkills == extract_skills_from_text(call.job_description)

\* the entries of xs that equal, case-insensitively, some entry of skills
Among(xs, skills) ==
    SelectSeq(xs, LAMBDA x : \E i \in 1..Len(skills) : lower(skills[i]) = lower(x))

\* the entries of xs that equal, case-insensitively, no entry of skills
NotAmong(xs, skills) ==
    SelectSeq(xs, LAMBDA x : \A i \in 1..Len(skills) : lower(skills[i]) # lower(x))

\* the job skills, the vocabulary entries first and in vocabulary order
CanonicalJobSkills ==
    Canonical(JobSkills) \o SelectSeq(JobSkills, LAMBDA x : x \notin Range(skill_keywords))

\* C10: matched_skills is the job skills found, case-insensitively, among the
\* candidate's skills, in canonical order, and skill_score is their number
\* over max(|job skills|, 1); in MatchResumeToJob the matched and the missing
\* skills partition the job skills and the first five missing ones are
\* reported.
C10_MatchedCanonical ==
    /\ (EndpointReturned("rank_candidates") /\ ret.value.success) =>
           \A i \in 1..Len(ret.value.ranked_candidates) :
               LET r == ret.value.ranked_candidates[i]
               IN  /\ r.matched_skills = Among(CanonicalJobSkills, r.candidate.skills)
                   /\ r.skill_score =
                          (Len(r.matched_skills) * One) \div Max(Len(JobSkills), 1)
    /\ (EndpointReturned("match_resume_to_job") /\ ret.value.success) =>
           LET missing == NotAmong(CanonicalJobSkills, call.resume_data.skills)
           IN  /\ ret.value.matched_skills =
                      Among(CanonicalJobSkills, call.resume_data.skills)
               /\ ret.value.missing_skills = SubSeq(missing, 1, Min(5, Len(missing)))
               /\ Range(ret.value.matched_skills) \cap Range(missing) = {}
               /\ Range(ret.value.matched_skills) \cup Range(missing) = Range(JobSkills)

\* the names of xs separated by ", "
Named(xs) ==
    IF xs = << >> THEN ""
    ELSE LET rest == [i \in 1..(Len(xs) - 1) |-> ", " \o xs[i + 1]]
             F[i \in 0..Len(rest)] == IF i = 0 THEN xs[1] ELSE F[i - 1] \o rest[i]
         IN  F[Len(rest)]

\* C11: the improvement suggestions are at most 4 and come in the fixed check
\* order: the missing-skills suggestion iff some job skill is absent,
\* case-insensitively, from the candidate's skills, naming at most the first 3
\* of them; then the projects suggestion iff there are fewer than 2 projects;
\* then the summary suggestion iff about is empty or whitespace-only.
C11_SuggestionsInOrder ==
    (EndpointReturned("match_resume_to_job") /\ ret.value.success) =>
        LET given == ret.value.improvement_suggestions
            missing == NotAmong(JobSkills, call.resume_data.skills)
            first3 == SubSeq(missing, 1, Min(3, Len(missing)))
            skills == IF missing # << >>
                      THEN <<"Consider adding these skills: " \o Named(first3)>>
                      ELSE << >>
            projects == IF Len(call.resume_data.projects) < 2
                        THEN <<"Add more project examples to demonstrate your technical abilities">>
                        ELSE << >>
            summary == IF OnlyWhiteSpace(call.resume_data.about)
                       THEN <<"Add a compelling professional summary highlighting your key strengths">>
                       ELSE << >>
        IN  /\ Len(given) <= 4
            /\ given = skills \o projects \o summary

\* every check fires, and more than three skills are missing
C11_Witness ==
    /\ EndpointReturned("match_resume_to_job")
    /\ ret.value.success
    /\ Len(NotAmong(JobSkills, call.resume_data.skills)) > 3
    /\ Len(call.resume_data.projects) < 2
    /\ OnlyWhiteSpace(call.resume_data.about)
    /\ Len(ret.value.improvement_suggestions) = 3

\* C12: whatever the interleaving of the requests handled in one process, the
\* ranking (and with it every similarity score) returned for a request is the
\* one its own job description and candidates give when handled alone.
C12_RequestsIndependent ==
    \A t \in Threads :
        "value" \in DOMAIN ret[t] =>
            ret[t].value =
                JobMatcher_rank_candidates(call[t].job_description,
                                           call[t].candidates_list)

\* start-up is over and the process serves requests
Started == call # Importing /\ "raised" \notin DOMAIN call

\* the skills a response reports
ReportedSkills ==
    IF call.op = "ai_analyze_job" THEN Range(ret.value.key_skills)
    ELSE Range(ret.value.matched_skills) \cup Range(ret.value.missing_skills)

\* C13: however the NLP capability fails to initialize, start-up completes;
\* afterwards every request succeeds or fails as its method and body alone
\* decide, and without the capability the skills reported are vocabulary
\* entries only.
C13_StartUpCompletes ==
    /\ call # Importing => Started
    /\ \A op \in EndpointOps :
           EndpointReturned(op) =>
               /\ ret.value.success =
                      (call.method = "POST" /\ call.fault = "none" /\ ~Rejected(call))
               /\ (ret.value.success /\ ~nlp /\ op # "rank_candidates") =>
                      ReportedSkills \subseteq
                          {k \in Range(skill_keywords) :
                              OccursLowered(k, call.job_description)}

====
